---- MODULE Spec2Model ----
(***************************************************************************)
(* The assignment-tracker API: the three Express routers (assignments,     *)
(* subjects, exams) over the Mongoose collections Assignment, Subject and  *)
(* Exam.  Every request is authenticated (the protect middleware has       *)
(* resolved req.user); ids are well-formed ObjectIds, with or without a    *)
(* record behind them.                                                     *)
(***************************************************************************)
EXTENDS Integers, Sequences, FiniteSets, TLC

VARIABLES assignments, subjects, exams, lastId, now, response, inflight

vars == <<assignments, subjects, exams, lastId, now, response, inflight>>

(* ------------------------------ bounds --------------------------------- *)
MaxAssignments == 2
MaxSubjects == 1
MaxExams == 1
MaxTime == 1

(* ------------------------------ users ---------------------------------- *)
Students == {"s1", "s2"}
Admins == {"admin"}
Users == Students \cup Admins
\* An ObjectId that is well formed and is the _id of no User record.
Ghost == "u0"
OwnerIds == Users \cup {Ghost}

\* req.user.role, as resolved by protect.
role(u) == IF u \in Admins THEN "admin" ELSE "student"

\* authorize(...roles): lets the request through only for a listed role.
authorize(roles, u) == role(u) \in roles

(* ------------------------------ values --------------------------------- *)
ABSENT == "absent"
NoNum == 0 - 1
NullUser == [_id |-> "null"]
NullSubject == [_id |-> 0, code |-> "null"]

AssignmentIds == 1..MaxAssignments
SubjectIds == 1..MaxSubjects
ExamIds == 1..MaxExams
Times == 0..MaxTime
DueDates == {0, 1}
StatusEnum == {"pending", "completed"}
Codes == {"MATH101", "PHY101"}

\* Request bodies of the assignments router: a field is present or absent.
NoFields == [createdBy |-> ABSENT, subject |-> NoNum, dueDate |-> NoNum, status |-> ABSENT]

\* Ownership runs: any owner value or none on POST, with or without the
\* required subject; at most one of owner and status set on PUT.
OwnerPostBodies ==
    [createdBy : OwnerIds \cup {ABSENT},
     subject : {1, NoNum},
     dueDate : {0},
     status : {ABSENT, "completed", "bogus"}]
OwnerPutBodies ==
    {[NoFields EXCEPT !.createdBy = o] : o \in OwnerIds}
       \cup {[NoFields EXCEPT !.status = st] : st \in StatusEnum \cup {"bogus", ABSENT}}

\* Listing runs: every due date and status, owners among the users.
ListPostBodies ==
    [createdBy : {ABSENT},
     subject : {1},
     dueDate : DueDates,
     status : StatusEnum \cup {ABSENT}]
ListPutBodies ==
    {[NoFields EXCEPT !.createdBy = "s2"]}
       \cup {[NoFields EXCEPT !.status = st] : st \in StatusEnum}
       \cup {[NoFields EXCEPT !.dueDate = d] : d \in DueDates}

\* Bodies used where the three routers run side by side.
StorePostBodies == [createdBy : {ABSENT}, subject : {1}, dueDate : {0}, status : {ABSENT}]
StoreSubjectBodies == [code : {"MATH101"}]
StoreExamBodies == [subject : {1}]

\* Bodies of the interleaved runs.
ConcPostBodies == StorePostBodies
ConcPutBodies == {[NoFields EXCEPT !.createdBy = "s2"], [NoFields EXCEPT !.status = "completed"]}

SubjectBodies == [code : Codes]
ExamBodies == [subject : SubjectIds]

(* ------------------------- the Assignment model ------------------------ *)
\* Schema defaults applied by Assignment.create.
WithDefaults(body) ==
    [body EXCEPT !.status = IF body.status = ABSENT THEN "pending" ELSE body.status]

\* Schema validation of a new document.
ValidDoc(doc) ==
    /\ doc.status \in StatusEnum
    /\ doc.subject # NoNum
    /\ doc.dueDate # NoNum

\* Update validators (runValidators: true) look at the paths being set.
ValidUpdate(body) == body.status \in StatusEnum \cup {ABSENT}

\* findByIdAndUpdate's $set of the body's fields on the stored document.
Merge(doc, body) ==
    [createdBy |-> IF body.createdBy = ABSENT THEN doc.createdBy ELSE body.createdBy,
     subject |-> IF body.subject = NoNum THEN doc.subject ELSE body.subject,
     dueDate |-> IF body.dueDate = NoNum THEN doc.dueDate ELSE body.dueDate,
     status |-> IF body.status = ABSENT THEN doc.status ELSE body.status]

\* .populate('subject', 'name code color'): the summary, or null when dangling.
PopulateSubject(s) ==
    IF s \in DOMAIN subjects THEN [_id |-> s, code |-> subjects[s].code] ELSE NullSubject

\* .populate('createdBy', 'name email'): the summary, or null when no such User.
PopulateUser(o) == IF o \in Users THEN [_id |-> o] ELSE NullUser

\* An Assignment as a response carries it, read from store st.
Populated(st, id) ==
    [_id |-> id,
     createdBy |-> PopulateUser(st[id].createdBy),
     subject |-> PopulateSubject(st[id].subject),
     dueDate |-> st[id].dueDate,
     status |-> st[id].status]

\* The orders .sort({ dueDate: 1 }) may return the documents ids in.
SortedByDueDate(ids) ==
    {s \in [1..Cardinality(ids) -> ids] :
        /\ \A i, j \in DOMAIN s : i # j => s[i] # s[j]
        /\ \A i, j \in DOMAIN s : i < j => assignments[s[i]].dueDate <= assignments[s[j]].dueDate}

PopulatedSeq(s) == [i \in DOMAIN s |-> Populated(assignments, s[i])]

(* ------------------------------ responses ------------------------------ *)
Reply(op, coll, u, id, status, data) ==
    [op |-> op, coll |-> coll, user |-> u, id |-> id, sent |-> ABSENT, status |-> status,
     success |-> status \in {200, 201}, count |-> Len(data), data |-> data]

\* The reply to a request whose body carried owner value o (kept with the reply).
Sent(o, reply) == [reply EXCEPT !.sent = o]

NoResponse == Reply("none", "none", "none", 0, 0, <<>>)

Without(f, id) == [k \in DOMAIN f \ {id} |-> f[k]]
With(f, id, v) == [k \in DOMAIN f \cup {id} |-> IF k = id THEN v ELSE f[k]]

Init ==
    /\ assignments = <<>>
    /\ subjects = <<>>
    /\ exams = <<>>
    /\ lastId = [assignment |-> 0, subject |-> 0, exam |-> 0]
    /\ now = 0
    /\ response = NoResponse
    /\ inflight = [u \in Users |-> <<>>]

\* new Date() moves on between requests.
Tick ==
    /\ now < MaxTime
    /\ now' = now + 1
    /\ UNCHANGED <<assignments, subjects, exams, lastId, response, inflight>>

(* ------------------------- routes/assignments.js ----------------------- *)
ListFilterNone(u) == DOMAIN assignments

\* GET /: the query filter chosen by role.
ListFilter(u) ==
    IF role(u) = "student"
    THEN {id \in DOMAIN assignments : assignments[id].createdBy = u}
    ELSE DOMAIN assignments

AssignmentList(u) ==
    /\ \E s \in SortedByDueDate(ListFilter(u)) :
         response' = Reply("LIST", "assignments", u, 0, 200, PopulatedSeq(s))
    /\ UNCHANGED <<assignments, subjects, exams, lastId, now, inflight>>

IsOverdueInclusive(id) ==
    /\ assignments[id].dueDate <= now
    /\ assignments[id].status # "completed"

\* GET /overdue: the query conditions on dueDate and status.
IsOverdue(id) ==
    /\ assignments[id].dueDate < now
    /\ assignments[id].status # "completed"

\* GET /overdue: the query filter chosen by role.
OverdueFilter(u) ==
    IF role(u) = "student"
    THEN {id \in DOMAIN assignments : assignments[id].createdBy = u /\ IsOverdue(id)}
    ELSE {id \in DOMAIN assignments : IsOverdue(id)}

AssignmentOverdue(u) ==
    /\ \E s \in SortedByDueDate(OverdueFilter(u)) :
         response' = Reply("OVERDUE", "assignments", u, 0, 200, PopulatedSeq(s))
    /\ UNCHANGED <<assignments, subjects, exams, lastId, now, inflight>>

\* GET /:id: the ownership test on the populated document.
ViewDenied(u, doc) == role(u) = "student" /\ doc.createdBy._id # u

AssignmentGetStatus(u, id) ==
    IF id \notin DOMAIN assignments THEN 404
    ELSE IF role(u) = "student" /\ Populated(assignments, id).createdBy = NullUser
         THEN 500   \* createdBy populated to null: reading ._id throws
    ELSE IF ViewDenied(u, Populated(assignments, id)) THEN 403
    ELSE 200

AssignmentGet(u, id) ==
    /\ response' = Reply("GET", "assignments", u, id, AssignmentGetStatus(u, id),
                         IF AssignmentGetStatus(u, id) = 200
                         THEN <<Populated(assignments, id)>> ELSE <<>>)
    /\ UNCHANGED <<assignments, subjects, exams, lastId, now, inflight>>

StampWhenMissing(u, body) ==
    IF body.createdBy = ABSENT THEN [body EXCEPT !.createdBy = u] ELSE body

\* POST /: req.body.createdBy = req.user._id.
Stamp(u, body) == [body EXCEPT !.createdBy = u]

AssignmentPost(u, body) ==
    /\ lastId.assignment < MaxAssignments
    /\ LET doc == WithDefaults(Stamp(u, body))
           id == lastId.assignment + 1
       IN IF ValidDoc(doc)
          THEN /\ assignments' = With(assignments, id, doc)
               /\ lastId' = [lastId EXCEPT !.assignment = id]
               /\ response' = Sent(body.createdBy, Reply("POST", "assignments", u, id, 201,
                                    <<Populated(With(assignments, id, doc), id)>>))
          ELSE /\ response' = Sent(body.createdBy, Reply("POST", "assignments", u, 0, 500, <<>>))
               /\ UNCHANGED <<assignments, lastId>>
    /\ UNCHANGED <<subjects, exams, now, inflight>>

UpdateDeniedNever(u, doc) == FALSE

\* PUT /:id: the ownership test on the stored document.
UpdateDenied(u, doc) == role(u) = "student" /\ doc.createdBy # u

\* findByIdAndUpdate(id, body, {new, runValidators}) and the reply built on it.
AssignmentWrite(u, id, body) ==
    IF ~ValidUpdate(body)
    THEN /\ response' = Sent(body.createdBy, Reply("PUT", "assignments", u, id, 500, <<>>))
         /\ UNCHANGED assignments
    ELSE IF id \in DOMAIN assignments
    THEN /\ assignments' = [assignments EXCEPT ![id] = Merge(assignments[id], body)]
         /\ response' = Sent(body.createdBy, Reply("PUT", "assignments", u, id, 200,
               <<Populated([assignments EXCEPT ![id] = Merge(assignments[id], body)], id)>>))
    ELSE \* no document: the query resolves to null, and the reply is still 200
         /\ response' = Sent(body.createdBy, Reply("PUT", "assignments", u, id, 200, <<>>))
         /\ UNCHANGED assignments

\* findById and the two early returns: 404, 403, or 0 to go on to the write.
PutCheck(u, id) ==
    IF id \notin DOMAIN assignments THEN 404
    ELSE IF UpdateDenied(u, assignments[id]) THEN 403
    ELSE 0

AssignmentPut(u, id, body) ==
    /\ IF PutCheck(u, id) # 0
       THEN /\ response' = Sent(body.createdBy, Reply("PUT", "assignments", u, id, PutCheck(u, id), <<>>))
            /\ UNCHANGED assignments
       ELSE AssignmentWrite(u, id, body)
    /\ UNCHANGED <<subjects, exams, lastId, now, inflight>>

AnyRole == {"admin", "student"}

\* DELETE /:id sits behind authorize('admin').
AssignmentDeleteRoles == {"admin"}

DeleteStatusAlwaysOk(found) == 200

\* The status chosen from what findByIdAndDelete returned.
DeleteStatus(found) == IF found THEN 200 ELSE 404

AssignmentDelete(u, id) ==
    /\ IF ~authorize(AssignmentDeleteRoles, u)
       THEN /\ response' = Reply("DELETE", "assignments", u, id, 403, <<>>)
            /\ UNCHANGED assignments
       ELSE /\ assignments' = Without(assignments, id)
            /\ response' = Reply("DELETE", "assignments", u, id,
                                 DeleteStatus(id \in DOMAIN assignments), <<>>)
    /\ UNCHANGED <<subjects, exams, lastId, now, inflight>>

(* --------------------------- routes/subjects.js ------------------------ *)
SubjectRoles == {"admin"}

SubjectPost(u, body) ==
    /\ lastId.subject < MaxSubjects
    /\ IF ~authorize(SubjectRoles, u)
       THEN /\ response' = Reply("POST", "subjects", u, 0, 403, <<>>)
            /\ UNCHANGED <<subjects, lastId>>
       ELSE LET id == lastId.subject + 1
            IN /\ subjects' = With(subjects, id, body)
               /\ lastId' = [lastId EXCEPT !.subject = id]
               /\ response' = Reply("POST", "subjects", u, id, 201,
                                    <<[_id |-> id, code |-> body.code]>>)
    /\ UNCHANGED <<assignments, exams, now, inflight>>

SubjectPut(u, id, body) ==
    /\ IF ~authorize(SubjectRoles, u)
       THEN /\ response' = Reply("PUT", "subjects", u, id, 403, <<>>)
            /\ UNCHANGED subjects
       ELSE IF id \notin DOMAIN subjects
       THEN /\ response' = Reply("PUT", "subjects", u, id, 404, <<>>)
            /\ UNCHANGED subjects
       ELSE /\ subjects' = [subjects EXCEPT ![id] = body]
            /\ response' = Reply("PUT", "subjects", u, id, 200,
                                 <<[_id |-> id, code |-> body.code]>>)
    /\ UNCHANGED <<assignments, exams, lastId, now, inflight>>

SubjectDeleteCascade(u, id) ==
    /\ IF ~authorize(SubjectRoles, u)
       THEN /\ response' = Reply("DELETE", "subjects", u, id, 403, <<>>)
            /\ UNCHANGED <<subjects, assignments, exams>>
       ELSE /\ subjects' = Without(subjects, id)
            /\ assignments' = [a \in {k \in DOMAIN assignments : assignments[k].subject # id}
                                 |-> assignments[a]]
            /\ exams' = [e \in {k \in DOMAIN exams : exams[k].subject # id} |-> exams[e]]
            /\ response' = Reply("DELETE", "subjects", u, id,
                                 DeleteStatus(id \in DOMAIN subjects), <<>>)
    /\ UNCHANGED <<lastId, now, inflight>>

SubjectDelete(u, id) ==
    /\ IF ~authorize(SubjectRoles, u)
       THEN /\ response' = Reply("DELETE", "subjects", u, id, 403, <<>>)
            /\ UNCHANGED subjects
       ELSE /\ subjects' = Without(subjects, id)
            /\ response' = Reply("DELETE", "subjects", u, id,
                                 DeleteStatus(id \in DOMAIN subjects), <<>>)
    /\ UNCHANGED <<assignments, exams, lastId, now, inflight>>

(* ---------------------------- routes/exams.js -------------------------- *)
ExamRoles == {"admin"}

PopulatedExam(st, id) == [_id |-> id, subject |-> PopulateSubject(st[id].subject)]

ExamPost(u, body) ==
    /\ lastId.exam < MaxExams
    /\ IF ~authorize(ExamRoles, u)
       THEN /\ response' = Reply("POST", "exams", u, 0, 403, <<>>)
            /\ UNCHANGED <<exams, lastId>>
       ELSE LET id == lastId.exam + 1
            IN /\ exams' = With(exams, id, body)
               /\ lastId' = [lastId EXCEPT !.exam = id]
               /\ response' = Reply("POST", "exams", u, id, 201,
                                    <<PopulatedExam(With(exams, id, body), id)>>)
    /\ UNCHANGED <<assignments, subjects, now, inflight>>

ExamPut(u, id, body) ==
    /\ IF ~authorize(ExamRoles, u)
       THEN /\ response' = Reply("PUT", "exams", u, id, 403, <<>>)
            /\ UNCHANGED exams
       ELSE IF id \notin DOMAIN exams
       THEN /\ response' = Reply("PUT", "exams", u, id, 404, <<>>)
            /\ UNCHANGED exams
       ELSE /\ exams' = [exams EXCEPT ![id] = body]
            /\ response' = Reply("PUT", "exams", u, id, 200,
                                 <<PopulatedExam([exams EXCEPT ![id] = body], id)>>)
    /\ UNCHANGED <<assignments, subjects, lastId, now, inflight>>

ExamDelete(u, id) ==
    /\ IF ~authorize(ExamRoles, u)
       THEN /\ response' = Reply("DELETE", "exams", u, id, 403, <<>>)
            /\ UNCHANGED exams
       ELSE /\ exams' = Without(exams, id)
            /\ response' = Reply("DELETE", "exams", u, id,
                                 DeleteStatus(id \in DOMAIN exams), <<>>)
    /\ UNCHANGED <<assignments, subjects, lastId, now, inflight>>

(* ------------------ requests interleaved at their awaits --------------- *)
Idle(u) == inflight[u] = <<>>

\* PUT /assignments/:id up to its first await: findById and the early returns.
PutRead(u, id, body) ==
    /\ Idle(u)
    /\ IF PutCheck(u, id) # 0
       THEN /\ response' = Sent(body.createdBy, Reply("PUT", "assignments", u, id, PutCheck(u, id), <<>>))
            /\ UNCHANGED inflight
       ELSE /\ inflight' = [inflight EXCEPT ![u] = <<[op |-> "PUT", id |-> id, body |-> body]>>]
            /\ UNCHANGED response
    /\ UNCHANGED <<assignments, subjects, exams, lastId, now>>

\* ... and from there on: findByIdAndUpdate and the reply.
PutWrite(u) ==
    /\ ~Idle(u)
    /\ inflight[u][1].op = "PUT"
    /\ AssignmentWrite(u, inflight[u][1].id, inflight[u][1].body)
    /\ inflight' = [inflight EXCEPT ![u] = <<>>]
    /\ UNCHANGED <<subjects, exams, lastId, now>>

\* POST /assignments up to its first await: the stamp and Assignment.create.
PostCreate(u, body) ==
    /\ Idle(u)
    /\ lastId.assignment < MaxAssignments
    /\ LET doc == WithDefaults(Stamp(u, body))
           id == lastId.assignment + 1
       IN IF ValidDoc(doc)
          THEN /\ assignments' = With(assignments, id, doc)
               /\ lastId' = [lastId EXCEPT !.assignment = id]
               /\ inflight' = [inflight EXCEPT ![u] = <<[op |-> "POST", id |-> id, body |-> body]>>]
               /\ UNCHANGED response
          ELSE /\ response' = Sent(body.createdBy, Reply("POST", "assignments", u, 0, 500, <<>>))
               /\ UNCHANGED <<assignments, lastId, inflight>>
    /\ UNCHANGED <<subjects, exams, now>>

\* ... and from there on: the populated re-read and the reply.
PostReread(u) ==
    /\ ~Idle(u)
    /\ inflight[u][1].op = "POST"
    /\ LET id == inflight[u][1].id
       IN response' = Sent(inflight[u][1].body.createdBy,
                           Reply("POST", "assignments", u, id, 201,
                                 IF id \in DOMAIN assignments
                                 THEN <<Populated(assignments, id)>> ELSE <<>>))
    /\ inflight' = [inflight EXCEPT ![u] = <<>>]
    /\ UNCHANGED <<assignments, subjects, exams, lastId, now>>

(* ---------------------------- specifications --------------------------- *)
OwnerNext ==
    \/ \E u \in Users, id \in AssignmentIds : AssignmentGet(u, id)
    \/ \E u \in Users, body \in OwnerPostBodies : AssignmentPost(u, body)
    \/ \E u \in Users, id \in AssignmentIds, body \in OwnerPutBodies : AssignmentPut(u, id, body)
    \/ \E u \in Users, id \in AssignmentIds : AssignmentDelete(u, id)

\* The assignments router's single-record routes, one request at a time.
Spec == Init /\ [][OwnerNext]_vars

ListNext ==
    \/ Tick
    \/ \E u \in Users : AssignmentList(u)
    \/ \E u \in Users : AssignmentOverdue(u)
    \/ \E u \in Users, body \in ListPostBodies : AssignmentPost(u, body)
    \/ \E u \in Users, id \in AssignmentIds, body \in ListPutBodies : AssignmentPut(u, id, body)
    \/ \E u \in Admins, id \in AssignmentIds : AssignmentDelete(u, id)

\* The assignments router's listing routes over a store that changes and a clock that runs.
ListSpec == Init /\ [][ListNext]_vars

StoreNext ==
    \/ \E u \in Users, body \in StoreSubjectBodies : SubjectPost(u, body)
    \/ \E u \in Users, id \in SubjectIds : SubjectDelete(u, id)
    \/ \E u \in Users, body \in StoreExamBodies : ExamPost(u, body)
    \/ \E u \in Users, id \in ExamIds : ExamDelete(u, id)
    \/ \E u \in Users, body \in StorePostBodies : AssignmentPost(u, body)
    \/ \E u \in Users, id \in AssignmentIds : AssignmentDelete(u, id)

\* The three routers' create and delete routes side by side, one request at a time.
StoreSpec == Init /\ [][StoreNext]_vars

ConcNext ==
    \/ \E u \in Users, body \in ConcPostBodies : PostCreate(u, body)
    \/ \E u \in Users : PostReread(u)
    \/ \E u \in Users, id \in AssignmentIds, body \in ConcPutBodies : PutRead(u, id, body)
    \/ \E u \in Users : PutWrite(u)
    \/ \E u \in Users, id \in AssignmentIds : Idle(u) /\ AssignmentDelete(u, id)
    \/ \E u \in Admins, body \in StoreSubjectBodies : Idle(u) /\ SubjectPost(u, body)
    \/ \E u \in Admins, id \in SubjectIds, body \in SubjectBodies : Idle(u) /\ SubjectPut(u, id, body)
    \/ \E u \in Admins, id \in SubjectIds : Idle(u) /\ SubjectDelete(u, id)
    \/ \E u \in Admins, body \in StoreExamBodies : Idle(u) /\ ExamPost(u, body)
    \/ \E u \in Admins, id \in ExamIds, body \in ExamBodies : Idle(u) /\ ExamPut(u, id, body)
    \/ \E u \in Admins, id \in ExamIds : Idle(u) /\ ExamDelete(u, id)

\* Requests of different users interleaved at the handlers' awaits.
ConcSpec == Init /\ [][ConcNext]_vars

(* ------------------------------- claims -------------------------------- *)
Stored(coll) ==
    IF coll = "assignments" THEN DOMAIN assignments
    ELSE IF coll = "subjects" THEN DOMAIN subjects ELSE DOMAIN exams

StoreUnchanged == UNCHANGED <<assignments, subjects, exams, lastId>>

\* C1: across every request, every stored Assignment keeps the createdBy it had,
\* and a newly stored one has the requester's id: no PUT alters the owner.
C1_OwnerNeverAltered ==
    [][/\ \A id \in DOMAIN assignments \cap DOMAIN assignments' :
            assignments'[id].createdBy = assignments[id].createdBy
       /\ \A id \in DOMAIN assignments' \ DOMAIN assignments :
            assignments'[id].createdBy = response'.user]_vars

\* C2: every POST /assignments answered 201 has stored one new record whose
\* createdBy is the requester, and returns that record with the requester as
\* its creator, whatever owner value the body carried.
C2_CreateStampsRequester ==
    [][(response'.op = "POST" /\ response'.status = 201) =>
       \A u \in {response'.user}, body \in {b \in OwnerPostBodies : b.createdBy = response'.sent} :
          AssignmentPost(u, body) =>
             /\ response'.id \notin DOMAIN assignments
             /\ DOMAIN assignments' = DOMAIN assignments \cup {response'.id}
             /\ assignments'[response'.id].createdBy = u
             /\ response'.count = 1
             /\ response'.data[1]._id = response'.id
             /\ response'.data[1].createdBy = [_id |-> u]]_vars

\* A 201 to a student whose body named another owner.
C2_CreatedWithForeignOwner ==
    /\ response.op = "POST" /\ response.coll = "assignments" /\ response.status = 201
    /\ response.user \in Students
    /\ response.sent \in OwnerIds \ {response.user}
    /\ assignments[response.id].createdBy = response.user

\* The PUT bodies that carry the owner value reply r was sent with.
SentBodies(r) ==
    IF r.op = "PUT" THEN {b \in OwnerPutBodies : b.createdBy = r.sent} ELSE {}

C4_DeleteAdminOnly ==
    [][/\ \A coll \in {"assignments", "subjects", "exams"} :
            Stored(coll)' # Stored(coll) /\ Stored(coll)' \subseteq Stored(coll) =>
               /\ response'.op = "DELETE" /\ response'.coll = coll
               /\ role(response'.user) = "admin"
       /\ \A u \in Users :
            role(u) # "admin" =>
               /\ \A id \in AssignmentIds :
                     AssignmentDelete(u, id) => response'.status = 403 /\ StoreUnchanged
               /\ \A id \in SubjectIds :
                     SubjectDelete(u, id) => response'.status = 403 /\ StoreUnchanged
               /\ \A id \in ExamIds :
                     ExamDelete(u, id) => response'.status = 403 /\ StoreUnchanged]_vars

\* A student has just been refused the DELETE of an assignment of their own.
C4_OwnerRefused ==
    /\ response.op = "DELETE" /\ response.coll = "assignments" /\ response.status = 403
    /\ response.user \in Students
    /\ response.id \in DOMAIN assignments
    /\ assignments[response.id].createdBy = response.user

ReturnedIds(r) == {r.data[i]._id : i \in 1..Len(r.data)}

\* C5: GET /assignments returns, each once, exactly the stored assignments whose
\* createdBy is the requester when a student asks, and every stored assignment
\* when an admin asks; count is the number of records returned.
C5_ListScoped ==
    [][\A u \in Users :
          (response'.op = "LIST" /\ response'.user = u /\ AssignmentList(u)) =>
             /\ response'.status = 200
             /\ ReturnedIds(response') =
                   {id \in DOMAIN assignments :
                       role(u) = "admin" \/ assignments[id].createdBy = u}
             /\ Cardinality(ReturnedIds(response')) = Len(response'.data)
             /\ response'.count = Len(response'.data)]_vars

\* A student's list that holds one of their own and leaves out someone else's.
C5_StudentSeesOwnOnly ==
    /\ response.op = "LIST" /\ response.user \in Students
    /\ response.count >= 1
    /\ ReturnedIds(response) \subseteq DOMAIN assignments
    /\ \E id \in DOMAIN assignments : id \notin ReturnedIds(response)

\* C6: GET /assignments/overdue returns exactly the stored assignments with
\* dueDate before the current time and status other than completed, narrowed
\* to createdBy = requester for a student and not narrowed for an admin.
C6_OverdueExact ==
    [][\A u \in Users :
          (response'.op = "OVERDUE" /\ response'.user = u /\ AssignmentOverdue(u)) =>
             /\ response'.status = 200
             /\ ReturnedIds(response') =
                   {id \in DOMAIN assignments :
                       /\ role(u) = "admin" \/ assignments[id].createdBy = u
                       /\ assignments[id].dueDate < now
                       /\ assignments[id].status # "completed"}
             /\ Cardinality(ReturnedIds(response')) = Len(response'.data)]_vars

\* A student's overdue list that holds one record and leaves out an own
\* assignment that is due now or completed.
C6_StudentOverdue ==
    /\ response.op = "OVERDUE" /\ response.user \in Students
    /\ response.count >= 1
    /\ ReturnedIds(response) \subseteq DOMAIN assignments
    /\ \E id \in DOMAIN assignments \ ReturnedIds(response) :
          /\ assignments[id].createdBy = response.user
          /\ assignments[id].dueDate = now \/ assignments[id].status = "completed"

Issued(coll) ==
    IF coll = "assignments" THEN 1..lastId.assignment
    ELSE IF coll = "subjects" THEN 1..lastId.subject ELSE 1..lastId.exam

\* C7: an admin's DELETE of an id with no record answers 404 and changes no
\* collection, so that the same DELETE again meets the same store and answers
\* the same; and an id whose record was removed never has a record again.
C7_DeleteMissingIs404 ==
    [][/\ \A u \in Admins :
            /\ \A id \in AssignmentIds :
                  (id \notin DOMAIN assignments /\ AssignmentDelete(u, id)) =>
                     response'.status = 404 /\ ~response'.success /\ StoreUnchanged
            /\ \A id \in SubjectIds :
                  (id \notin DOMAIN subjects /\ SubjectDelete(u, id)) =>
                     response'.status = 404 /\ ~response'.success /\ StoreUnchanged
            /\ \A id \in ExamIds :
                  (id \notin DOMAIN exams /\ ExamDelete(u, id)) =>
                     response'.status = 404 /\ ~response'.success /\ StoreUnchanged
       /\ \A coll \in {"assignments", "subjects", "exams"} :
            /\ Issued(coll) \subseteq Issued(coll)'
            /\ \A id \in Issued(coll) \ Stored(coll) : id \notin Stored(coll)']_vars

\* An admin has just been answered 404 for deleting an id whose record an
\* earlier DELETE removed.
C7_DeletedAgain ==
    /\ response.op = "DELETE" /\ response.status = 404
    /\ role(response.user) = "admin"
    /\ response.id \in Issued(response.coll) \ Stored(response.coll)

\* C8: a DELETE /subjects/:id answered 200 removes that Subject and nothing
\* else: every Assignment and Exam stays as stored, those referring to the
\* deleted subject included.
C8_SubjectDeleteNoCascade ==
    [][\A u \in Users, id \in SubjectIds :
          (SubjectDelete(u, id) /\ response'.status = 200) =>
             /\ id \in DOMAIN subjects
             /\ subjects' = Without(subjects, id)
             /\ assignments' = assignments
             /\ exams' = exams]_vars

\* A subject has just been deleted and an assignment and an exam still refer to it.
C8_DanglingReferences ==
    /\ response.op = "DELETE" /\ response.coll = "subjects" /\ response.status = 200
    /\ response.id \notin DOMAIN subjects
    /\ \E a \in DOMAIN assignments : assignments[a].subject = response.id
    /\ \E e \in DOMAIN exams : exams[e].subject = response.id

\* C9: under every interleaving, a PUT whose id has no record when its write is
\* applied answers 404 and never 200: on assignments, subjects and exams.
C9_PutOnMissingIs404 ==
    [][/\ \A u \in Users :
            (PutWrite(u) /\ inflight[u][1].id \notin DOMAIN assignments) =>
               response'.status = 404
       /\ \A u \in Admins, id \in SubjectIds, body \in SubjectBodies :
            (SubjectPut(u, id, body) /\ id \notin DOMAIN subjects) => response'.status = 404
       /\ \A u \in Admins, id \in ExamIds, body \in ExamBodies :
            (ExamPut(u, id, body) /\ id \notin DOMAIN exams) => response'.status = 404]_vars

\* C10: under every interleaving, a write of a student's PUT that changes an
\* assignment changes one whose stored owner, at that moment, is that student.
C10_StudentWritesOwnOnly ==
    [][\A u \in Students :
          (PutWrite(u) /\ assignments' # assignments) =>
             assignments[inflight[u][1].id].createdBy = u]_vars

====
